---- MODULE Spec2Model ----
(***************************************************************************)
(* salt-common: the string interning table (str/intern.rs), the identity   *)
(* wrappers Filename and Symbol (filename.rs, symbol.rs) and the position  *)
(* hierarchy Point, Location, FilePosition, BasicPosition, DWARFPosition   *)
(* (position/mod.rs).                                                      *)
(*                                                                         *)
(* Spec     the interning tables under intern / reserve / shrink_to_fit.   *)
(* PosSpec  the comparison, rendering and PositionInfo operations applied  *)
(*          to values of the wrapper and position types.                   *)
(***************************************************************************)
EXTENDS Integers, Sequences, FiniteSets, TLC

VARIABLES
    tabs,     \* tabs[t]: the HashMap of table t, [entries, cap]
    calls,    \* history: the intern calls made so far, in order
    resized,  \* history: Len(calls) at the latest reserve / shrink_to_fit, or -1
    layer,    \* PosSpec: the type of the operands a and b
    a,        \* PosSpec: left operand (self)
    b,        \* PosSpec: right operand (other)
    res       \* PosSpec: the result of the last operation applied

vars == <<tabs, calls, resized, layer, a, b, res>>

----------------------------------------------------------------------------
(* Bounds *)

MemLen == 3      \* bytes of string storage the references point into
MaxLen == 2      \* longest string slice
MaxCalls == 3    \* intern calls in one behaviour
MaxCap == 1      \* largest capacity hint / spare capacity
MaxNum == 2      \* largest line / column number of compared points
MaxIdx == 1      \* largest command-line index, longest index list is MaxIdx+1
MaxDepth == 1    \* deepest nesting of DWARFPosition::Block

----------------------------------------------------------------------------
(* String storage.  A &str is a fat pointer: the address of its first byte *)
(* and its length.  Its text is the bytes stored there.                    *)

Byte(i) == IF i % 2 = 0 THEN 98 ELSE 97      \* storage holds "baba..."

Refs == { [addr |-> i, len |-> n] : i \in 0..(MemLen - 1), n \in 1..MaxLen }
          \cap { r \in [addr : 0..(MemLen - 1), len : 1..MaxLen] :
                   r.addr + r.len <= MemLen }

Text(r) == [ i \in 1..r.len |-> Byte(r.addr + i - 1) ]

Less == "Less"
Equal == "Equal"
Greater == "Greater"

\* Ordering::then
Then(o1, o2) == IF o1 = Equal THEN o2 ELSE o1

\* Ord for integers (u32, usize)
IntCmp(x, y) == IF x < y THEN Less ELSE IF x > y THEN Greater ELSE Equal

\* Ord for slices and str: lexicographic, a proper prefix is Less
RECURSIVE SeqCmp(_, _)
SeqCmp(s, t) ==
    IF s = <<>> THEN (IF t = <<>> THEN Equal ELSE Less)
    ELSE IF t = <<>> THEN Greater
    ELSE Then(IntCmp(Head(s), Head(t)), SeqCmp(Tail(s), Tail(t)))

StrCmp(r1, r2) == SeqCmp(Text(r1), Text(r2))

\* PartialEq for str: equal text
StrEq(r1, r2) == Text(r1) = Text(r2)

----------------------------------------------------------------------------
(* Filename and Symbol: wrappers of one &str.  Option<T> is a sequence of  *)
(* at most one element.                                                    *)

Some(x) == <<x>>
None == <<>>

Filename(r) == [ref |-> r]
Symbol(r) == [ref |-> r]

\* self.0 as *const _ == other.0 as *const _ : *const str, a fat pointer
FilenameEqText(x, y) == StrEq(x.ref, y.ref)

FilenameEq(x, y) == x.ref.addr = y.ref.addr /\ x.ref.len = y.ref.len

\* ((self.0 as *const _) as *const u8) as usize: the address alone
FilenamePartialCmp(x, y) == Some(IntCmp(x.ref.addr, y.ref.addr))

\* derive(Ord) on Filename(&str): Ord of the field, which is Ord for str
FilenameCmp(x, y) == StrCmp(x.ref, y.ref)

\* Hash for Filename: the value given to Hasher::write_usize, the address
FilenameHash(x) == x.ref.addr

SymbolEqText(x, y) == StrEq(x.ref, y.ref)

SymbolEq(x, y) == x.ref.addr = y.ref.addr /\ x.ref.len = y.ref.len

SymbolPartialCmp(x, y) == Some(IntCmp(x.ref.addr, y.ref.addr))

SymbolCmp(x, y) == StrCmp(x.ref, y.ref)

SymbolHash(x) == x.ref.addr

----------------------------------------------------------------------------
(* Point and Location.                                                     *)

Point(l, c) == [line |-> l, col |-> c]
LocSpan(s, e) == [kind |-> "Span", start |-> s, end |-> e]
LocPoint(p) == [kind |-> "Point", point |-> p]

PointEq(p, q) == p.line = q.line /\ p.col = q.col

\* derive(Ord) on Point: the fields in declaration order
PointCmp(p, q) == Then(IntCmp(p.line, q.line), IntCmp(p.col, q.col))

PointPartialCmp(p, q) == Some(Then(IntCmp(p.line, q.line), IntCmp(p.col, q.col)))

LocationEq(x, y) ==
    CASE x.kind = "Span" /\ y.kind = "Span" ->
            PointEq(x.start, x.end) /\ PointEq(y.start, y.end)
      [] x.kind = "Point" /\ y.kind = "Point" -> PointEq(x.point, y.point)
      [] OTHER -> FALSE

LocationPartialCmpPointFirst(x, y) ==
    CASE x.kind = "Span" /\ y.kind = "Span" ->
            Some(Then(PointCmp(x.start, y.start), PointCmp(x.end, y.end)))
      [] x.kind = "Span" /\ y.kind = "Point" -> Some(Greater)
      [] x.kind = "Point" /\ y.kind = "Span" -> Some(Less)
      [] x.kind = "Point" /\ y.kind = "Point" -> Some(PointCmp(x.point, y.point))

LocationPartialCmp(x, y) ==
    CASE x.kind = "Span" /\ y.kind = "Span" ->
            Some(Then(PointCmp(x.start, y.start), PointCmp(x.end, y.end)))
      [] x.kind = "Span" /\ y.kind = "Point" -> Some(Less)
      [] x.kind = "Point" /\ y.kind = "Span" -> Some(Greater)
      [] x.kind = "Point" /\ y.kind = "Point" -> Some(PointCmp(x.point, y.point))

\* The position of a variant in its enum's declaration.
LocationDiscr(x) == IF x.kind = "Span" THEN 0 ELSE 1

\* derive(Ord) on Location: the discriminant, then the fields in order
LocationCmp(x, y) ==
    IF LocationDiscr(x) # LocationDiscr(y)
    THEN IntCmp(LocationDiscr(x), LocationDiscr(y))
    ELSE IF x.kind = "Span"
         THEN Then(PointCmp(x.start, y.start), PointCmp(x.end, y.end))
         ELSE PointCmp(x.point, y.point)

\* Display of an unsigned integer: its decimal digits, as characters.
DigitChars == <<"0", "1", "2", "3", "4", "5", "6", "7", "8", "9">>

RECURSIVE Dec(_)
Dec(n) == IF n < 10 THEN <<DigitChars[n + 1]>>
          ELSE Dec(n \div 10) \o <<DigitChars[(n % 10) + 1]>>

\* write!(f, "{}.{}", self.line, self.col)
PointDisplay(p) == Dec(p.line) \o <<".">> \o Dec(p.col)

LocationDisplayFull(x) ==
    IF x.kind = "Span"
    THEN PointDisplay(x.start) \o <<"-">> \o PointDisplay(x.end)
    ELSE PointDisplay(x.point)

LocationDisplay(x) ==
    CASE x.kind = "Span" /\ x.start.line = x.end.line ->
            Dec(x.start.line) \o <<".">> \o Dec(x.start.col) \o <<"-">>
                \o Dec(x.end.col)
      [] x.kind = "Span" /\ x.start.line # x.end.line ->
            PointDisplay(x.start) \o <<"-">> \o PointDisplay(x.end)
      [] x.kind = "Point" -> PointDisplay(x.point)

----------------------------------------------------------------------------
(* FilePosition.                                                           *)

FilePosition(f, l) == [filename |-> f, loc |-> l]

FilePositionEq(x, y) == FilenameEq(x.filename, y.filename) /\ LocationEq(x.loc, y.loc)

FilePositionPartialCmp(x, y) ==
    Some(Then(FilenameCmp(x.filename, y.filename), LocationCmp(x.loc, y.loc)))

\* derive(Ord) on FilePosition
FilePositionCmp(x, y) ==
    Then(FilenameCmp(x.filename, y.filename), LocationCmp(x.loc, y.loc))

\* PositionInfo::location: Option<(&Filename, Option<&Location>)>
FilePositionLocation(x) == Some(<<x.filename, Some(x.loc)>>)

----------------------------------------------------------------------------
(* BasicPosition.                                                          *)

Content(fp) == [kind |-> "Content", filepos |-> fp]
File(f) == [kind |-> "File", filename |-> f]
CmdLine(is) == [kind |-> "CmdLine", idxs |-> is]
Synthetic(d) == [kind |-> "Synthetic", desc |-> d]

BasicPositionEq(x, y) ==
    CASE x.kind = "Content" /\ y.kind = "Content" ->
            FilePositionEq(x.filepos, y.filepos)
      [] x.kind = "File" /\ y.kind = "File" -> FilenameEq(x.filename, y.filename)
      [] x.kind = "CmdLine" /\ y.kind = "CmdLine" -> x.idxs = y.idxs
      [] x.kind = "Synthetic" /\ y.kind = "Synthetic" -> StrEq(x.desc, y.desc)
      [] OTHER -> FALSE

\* derive(Ord) on BasicPosition
BasicPositionDiscr(x) ==
    CASE x.kind = "Content" -> 0
      [] x.kind = "File" -> 1
      [] x.kind = "CmdLine" -> 2
      [] x.kind = "Synthetic" -> 3

BasicPositionCmp(x, y) ==
    IF BasicPositionDiscr(x) # BasicPositionDiscr(y)
    THEN IntCmp(BasicPositionDiscr(x), BasicPositionDiscr(y))
    ELSE CASE x.kind = "Content" -> FilePositionCmp(x.filepos, y.filepos)
           [] x.kind = "File" -> FilenameCmp(x.filename, y.filename)
           [] x.kind = "CmdLine" -> SeqCmp(x.idxs, y.idxs)
           [] x.kind = "Synthetic" -> StrCmp(x.desc, y.desc)

\* The match arms of partial_cmp, first match wins.
BasicPositionPartialCmpFileLast(x, y) ==
    IF x.kind = "Content" /\ y.kind = "Content"
        THEN Some(FilePositionCmp(x.filepos, y.filepos))
    ELSE IF x.kind = "Content" THEN Some(Less)
    ELSE IF y.kind = "Content" THEN Some(Greater)
    ELSE IF x.kind = "File" /\ y.kind = "File"
        THEN Some(FilenameCmp(x.filename, y.filename))
    ELSE IF x.kind = "File" THEN Some(Greater)
    ELSE IF y.kind = "File" THEN Some(Greater)
    ELSE IF x.kind = "CmdLine" /\ y.kind = "CmdLine"
        THEN Some(SeqCmp(x.idxs, y.idxs))
    ELSE IF x.kind = "CmdLine" THEN Some(Less)
    ELSE IF y.kind = "CmdLine" THEN Some(Greater)
    ELSE Some(StrCmp(x.desc, y.desc))

BasicPositionPartialCmp(x, y) ==
    IF x.kind = "Content" /\ y.kind = "Content"
        THEN Some(FilePositionCmp(x.filepos, y.filepos))
    ELSE IF x.kind = "Content" THEN Some(Less)
    ELSE IF y.kind = "Content" THEN Some(Greater)
    ELSE IF x.kind = "File" /\ y.kind = "File"
        THEN Some(FilenameCmp(x.filename, y.filename))
    ELSE IF x.kind = "File" THEN Some(Less)
    ELSE IF y.kind = "File" THEN Some(Greater)
    ELSE IF x.kind = "CmdLine" /\ y.kind = "CmdLine"
        THEN Some(SeqCmp(x.idxs, y.idxs))
    ELSE IF x.kind = "CmdLine" THEN Some(Less)
    ELSE IF y.kind = "CmdLine" THEN Some(Greater)
    ELSE Some(StrCmp(x.desc, y.desc))

BasicPositionLocationNoLoc(x) ==
    CASE x.kind = "Content" -> Some(<<x.filepos.filename, None>>)
      [] x.kind = "File" -> Some(<<x.filename, None>>)
      [] OTHER -> None

BasicPositionLocation(x) ==
    CASE x.kind = "Content" -> FilePositionLocation(x.filepos)
      [] x.kind = "File" -> Some(<<x.filename, None>>)
      [] x.kind = "CmdLine" -> None
      [] x.kind = "Synthetic" -> None

----------------------------------------------------------------------------
(* DWARFPosition<T, D>, with integer identifiers.                          *)

Def(id, pos) == [kind |-> "Def", id |-> id, pos |-> pos]
TypeDef(id, pos) == [kind |-> "TypeDef", id |-> id, pos |-> pos]
Block(ctx, pos) == [kind |-> "Block", ctx |-> ctx, pos |-> pos]
Basic(pos) == [kind |-> "Basic", pos |-> pos]

RECURSIVE DWARFPositionEq(_, _)
DWARFPositionEq(x, y) ==
    CASE x.kind = "Def" /\ y.kind = "Def" ->
            x.id = y.id /\ FilePositionEq(x.pos, y.pos)
      [] x.kind = "TypeDef" /\ y.kind = "TypeDef" ->
            x.id = y.id /\ FilePositionEq(x.pos, y.pos)
      [] x.kind = "Block" /\ y.kind = "Block" ->
            DWARFPositionEq(x.ctx, y.ctx) /\ FilePositionEq(x.pos, y.pos)
      [] x.kind = "Basic" /\ y.kind = "Basic" -> BasicPositionEq(x.pos, y.pos)
      [] OTHER -> FALSE

DWARFPositionDiscr(x) ==
    CASE x.kind = "Def" -> 0
      [] x.kind = "TypeDef" -> 1
      [] x.kind = "Block" -> 2
      [] x.kind = "Basic" -> 3

\* derive(Ord) on DWARFPosition
RECURSIVE DWARFPositionCmp(_, _)
DWARFPositionCmp(x, y) ==
    IF DWARFPositionDiscr(x) # DWARFPositionDiscr(y)
    THEN IntCmp(DWARFPositionDiscr(x), DWARFPositionDiscr(y))
    ELSE CASE x.kind = "Def" ->
                Then(IntCmp(x.id, y.id), FilePositionCmp(x.pos, y.pos))
           [] x.kind = "TypeDef" ->
                Then(IntCmp(x.id, y.id), FilePositionCmp(x.pos, y.pos))
           [] x.kind = "Block" ->
                Then(DWARFPositionCmp(x.ctx, y.ctx), FilePositionCmp(x.pos, y.pos))
           [] x.kind = "Basic" -> BasicPositionCmp(x.pos, y.pos)

DWARFPositionPartialCmp(x, y) ==
    IF x.kind = "Def" /\ y.kind = "Def"
        THEN Some(Then(IntCmp(x.id, y.id), FilePositionCmp(x.pos, y.pos)))
    ELSE IF x.kind = "Def" THEN Some(Less)
    ELSE IF y.kind = "Def" THEN Some(Greater)
    ELSE IF x.kind = "TypeDef" /\ y.kind = "TypeDef"
        THEN Some(Then(IntCmp(x.id, y.id), FilePositionCmp(x.pos, y.pos)))
    ELSE IF x.kind = "TypeDef" THEN Some(Less)
    ELSE IF y.kind = "TypeDef" THEN Some(Greater)
    ELSE IF x.kind = "Block" /\ y.kind = "Block"
        THEN Some(Then(DWARFPositionCmp(x.ctx, y.ctx),
                       FilePositionCmp(x.pos, y.pos)))
    ELSE IF x.kind = "Block" THEN Some(Less)
    ELSE IF y.kind = "Block" THEN Some(Greater)
    ELSE Some(BasicPositionCmp(x.pos, y.pos))

----------------------------------------------------------------------------
(* StrIntern: HashMap<&str, &str>, keyed by the text of the key.           *)

Tables == {1, 2}

\* The strings handed to intern: the slices of the two greatest lengths.
Strs == { r \in Refs : r.len >= MaxLen - 1 }

Max(x, y) == IF x > y THEN x ELSE y

\* The capacities a HashMap may end up with when at least n are asked for.
CapChoices(n) == n..Max(n, MaxCap)

new == [entries |-> {}, cap |-> 0]

with_capacity(capacity) ==
    { [entries |-> {}, cap |-> c] : c \in CapChoices(capacity) }

len(tab) == Cardinality(tab.entries)

\* HashMap::entry(str): the entries whose key has the text of str.
Occupied(tab, str) == { e \in tab.entries : StrEq(e.key, str) }

\* The reference intern returns.
InternRetArg(tab, str) == str

InternRet(tab, str) ==
    IF Occupied(tab, str) # {}
    THEN (CHOOSE e \in Occupied(tab, str) : TRUE).val
    ELSE str

\* The entries of the map after intern.
InternEntriesAlways(tab, str) ==
    tab.entries \cup { [key |-> str, val |-> str] }

InternEntries(tab, str) ==
    IF Occupied(tab, str) # {}
    THEN tab.entries
    ELSE tab.entries \cup { [key |-> str, val |-> str] }

intern(t, str) ==
    /\ Len(calls) < MaxCalls
    /\ LET tab == tabs[t]
           ents == InternEntries(tab, str)
           ret == InternRet(tab, str)
       IN /\ \E c \in (IF Cardinality(ents) <= tab.cap
                       THEN {tab.cap}
                       ELSE CapChoices(Cardinality(ents))) :
                 tabs' = [tabs EXCEPT ![t] = [entries |-> ents, cap |-> c]]
          /\ calls' = Append(calls, [tab |-> t, arg |-> str, ret |-> ret])
    /\ UNCHANGED <<resized, layer, a, b, res>>

reserve(t, additional) ==
    /\ len(tabs[t]) + additional <= MaxCap
    /\ \E c \in CapChoices(Max(tabs[t].cap, len(tabs[t]) + additional)) :
          tabs' = [tabs EXCEPT ![t].cap = c]
    /\ resized' = Len(calls)
    /\ UNCHANGED <<calls, layer, a, b, res>>

shrink_to_fit(t) ==
    /\ \E c \in len(tabs[t])..tabs[t].cap :
          tabs' = [tabs EXCEPT ![t].cap = c]
    /\ resized' = Len(calls)
    /\ UNCHANGED <<calls, layer, a, b, res>>

NoOperands ==
    /\ layer = "none"
    /\ a = [kind |-> "none"]
    /\ b = [kind |-> "none"]
    /\ res = [op |-> "none"]

InitTables ==
    /\ tabs \in [Tables -> {new} \cup UNION { with_capacity(n) : n \in 0..MaxCap }]
    /\ calls = <<>>
    /\ resized = -1

Init == InitTables /\ NoOperands

Next ==
    \/ \E t \in Tables, str \in Strs : intern(t, str)
    \/ \E t \in Tables, additional \in 0..MaxCap : reserve(t, additional)
    \/ \E t \in Tables : shrink_to_fit(t)

Spec == Init /\ [][Next]_vars

----------------------------------------------------------------------------
(* PosSpec: two operands of one type, and the operations applied to them.  *)

Nums == 1..MaxNum
\* Line and column numbers (u32) with one to ten decimal digits.
FmtNums == {1, 3, 4, 5, 9, 10, 2147483647}

Points(N) == { Point(l, c) : l \in N, c \in N }
Locations(N) ==
    { LocSpan(s, e) : s \in Points(N), e \in Points(N) }
        \cup { LocPoint(p) : p \in Points(N) }

Filenames == { Filename(r) : r \in Refs }
Symbols == { Symbol(r) : r \in Refs }

\* Locations on the first line.
LineLocations == { l \in Locations(Nums) :
    IF l.kind = "Span" THEN l.start.line = 1 /\ l.end.line = 1
    ELSE l.point.line = 1 }

FilePositions == { FilePosition(f, l) : f \in Filenames, l \in LineLocations }

RECURSIVE SeqsUpTo(_, _)
SeqsUpTo(S, n) ==
    IF n = 0 THEN { <<>> }
    ELSE SeqsUpTo(S, n - 1)
            \cup { Append(q, x) : q \in SeqsUpTo(S, n - 1), x \in S }

BasicPositions ==
    { Content(fp) : fp \in FilePositions }
        \cup { File(f) : f \in Filenames }
        \cup { CmdLine(is) : is \in SeqsUpTo(0..MaxIdx, MaxIdx + 1) }
        \cup { Synthetic(d) : d \in Refs }

\* The payloads of the DWARFPosition operands.
Ids == {0, 1}
ShortRefs == { r \in Refs : r.len = 1 /\ r.addr <= 1 }
DPositions == { FilePosition(Filename(r), LocPoint(Point(1, 1))) : r \in ShortRefs }
DBasics ==
    { Content(fp) : fp \in DPositions }
        \cup { File(Filename(r)) : r \in ShortRefs }
        \cup { CmdLine(<<>>), CmdLine(<<0>>) }
        \cup { Synthetic(r) : r \in ShortRefs }

RECURSIVE DWARFPositions(_)
DWARFPositions(depth) ==
    { Def(i, p) : i \in Ids, p \in DPositions }
        \cup { TypeDef(i, p) : i \in Ids, p \in DPositions }
        \cup { Basic(bp) : bp \in DBasics }
        \cup (IF depth = 0 THEN {}
              ELSE { Block(c, p) : c \in DWARFPositions(depth - 1),
                                   p \in { FilePosition(Filename(r), LocPoint(Point(1, 1))) :
                                             r \in { q \in ShortRefs : q.addr = 0 } } })

Layers == {"Filename", "Symbol", "Point", "Location", "FilePosition",
           "BasicPosition", "DWARFPosition"}

Values(ty) ==
    CASE ty = "Filename" -> Filenames
      [] ty = "Symbol" -> Symbols
      [] ty = "Point" -> Points(Nums)
      [] ty = "Location" -> Locations(Nums)
      [] ty = "FilePosition" -> FilePositions
      [] ty = "BasicPosition" -> BasicPositions
      [] ty = "DWARFPosition" -> DWARFPositions(MaxDepth)

\* PartialEq::eq
Eq(ty, x, y) ==
    CASE ty = "Filename" -> FilenameEq(x, y)
      [] ty = "Symbol" -> SymbolEq(x, y)
      [] ty = "Point" -> PointEq(x, y)
      [] ty = "Location" -> LocationEq(x, y)
      [] ty = "FilePosition" -> FilePositionEq(x, y)
      [] ty = "BasicPosition" -> BasicPositionEq(x, y)
      [] ty = "DWARFPosition" -> DWARFPositionEq(x, y)

\* PartialOrd::partial_cmp
PartialCmp(ty, x, y) ==
    CASE ty = "Filename" -> FilenamePartialCmp(x, y)
      [] ty = "Symbol" -> SymbolPartialCmp(x, y)
      [] ty = "Point" -> PointPartialCmp(x, y)
      [] ty = "Location" -> LocationPartialCmp(x, y)
      [] ty = "FilePosition" -> FilePositionPartialCmp(x, y)
      [] ty = "BasicPosition" -> BasicPositionPartialCmp(x, y)
      [] ty = "DWARFPosition" -> DWARFPositionPartialCmp(x, y)

\* Ord::cmp
Cmp(ty, x, y) ==
    CASE ty = "Filename" -> FilenameCmp(x, y)
      [] ty = "Symbol" -> SymbolCmp(x, y)
      [] ty = "Point" -> PointCmp(x, y)
      [] ty = "Location" -> LocationCmp(x, y)
      [] ty = "FilePosition" -> FilePositionCmp(x, y)
      [] ty = "BasicPosition" -> BasicPositionCmp(x, y)
      [] ty = "DWARFPosition" -> DWARFPositionCmp(x, y)

eq ==
    /\ layer # "none"
    /\ res' = [op |-> "eq", val |-> Eq(layer, a, b)]
    /\ UNCHANGED <<tabs, calls, resized, layer, a, b>>

partial_cmp ==
    /\ layer # "none"
    /\ res' = [op |-> "partial_cmp", val |-> PartialCmp(layer, a, b)]
    /\ UNCHANGED <<tabs, calls, resized, layer, a, b>>

cmp ==
    /\ layer # "none"
    /\ res' = [op |-> "cmp", val |-> Cmp(layer, a, b)]
    /\ UNCHANGED <<tabs, calls, resized, layer, a, b>>

\* Hash::hash of the left operand: the value it feeds the hasher
hash ==
    /\ layer \in {"Filename", "Symbol"}
    /\ res' = [op |-> "hash",
               val |-> IF layer = "Filename" THEN FilenameHash(a)
                       ELSE SymbolHash(a)]
    /\ UNCHANGED <<tabs, calls, resized, layer, a, b>>

\* Display::fmt of the left operand
fmt ==
    /\ layer \in {"Point", "Location"}
    /\ res' = [op |-> "fmt",
               val |-> IF layer = "Point" THEN PointDisplay(a)
                       ELSE LocationDisplay(a)]
    /\ UNCHANGED <<tabs, calls, resized, layer, a, b>>

\* PositionInfo::location of the left operand
location ==
    /\ layer \in {"FilePosition", "BasicPosition"}
    /\ res' = [op |-> "location",
               val |-> IF layer = "FilePosition" THEN FilePositionLocation(a)
                       ELSE BasicPositionLocation(a)]
    /\ UNCHANGED <<tabs, calls, resized, layer, a, b>>

\* Two operands of one type; or one Location over the wider numbers, taken
\* as both operands.
PosInit ==
    /\ tabs = [t \in Tables |-> new]
    /\ calls = <<>>
    /\ resized = -1
    /\ \/ /\ layer \in Layers
          /\ a \in Values(layer)
          /\ b \in Values(layer)
       \/ /\ layer = "Location"
          /\ a \in Locations(FmtNums)
          /\ b = a
    /\ res = [op |-> "none"]

PosNext == eq \/ partial_cmp \/ cmp \/ hash \/ fmt \/ location

PosSpec == PosInit /\ [][PosNext]_vars

----------------------------------------------------------------------------
(* Claims about the interning table (Spec).                                *)

CallIdx == 1..Len(calls)

SameKey(i, j) ==
    calls[i].tab = calls[j].tab /\ Text(calls[i].arg) = Text(calls[j].arg)

\* The first intern call on the table of call i with the text of call i.
FirstCall(i) == CHOOSE k \in CallIdx :
    /\ SameKey(k, i)
    /\ \A m \in CallIdx : SameKey(m, i) => k <= m

\* C1: on one table, whatever reserve and shrink_to_fit calls are made in
\* between, any two intern calls whose arguments have equal text return the
\* identical reference (same address and length), and that reference is the
\* argument of the first intern call with that text, also when the later
\* argument is another copy of the text at a different address.
C1_InternIdentity ==
    \A i, j \in CallIdx :
        SameKey(i, j) =>
            /\ calls[i].ret = calls[j].ret
            /\ calls[i].ret = calls[FirstCall(i)].arg

\* Two intern calls on one table with copies of one text at different
\* addresses, a capacity operation between them.
C1_Witness ==
    \E i, j \in CallIdx :
        /\ i < j
        /\ SameKey(i, j)
        /\ calls[i].arg.addr # calls[j].arg.addr
        /\ i <= resized /\ resized < j
        /\ calls[j].ret = calls[i].arg

\* C8 as stated: Filenames built from interning one text twice in a table
\* are equal, and a Filename built from interning that text in another table
\* is unequal to both, for any references of equal text.
C8_Original ==
    \A i, j, k \in CallIdx :
        (/\ SameKey(i, j)
         /\ calls[k].tab # calls[i].tab
         /\ Text(calls[k].arg) = Text(calls[i].arg))
        => /\ FilenameEq(Filename(calls[i].ret), Filename(calls[j].ret))
           /\ ~FilenameEq(Filename(calls[i].ret), Filename(calls[k].ret))
           /\ ~FilenameEq(Filename(calls[j].ret), Filename(calls[k].ret))

\* C8 amended: Filenames built from interning one text twice in a table are
\* equal; a Filename built from interning that text in another table is
\* unequal to both exactly when the two tables were first given that text
\* at different addresses, and equal to both when they were first given the
\* same reference.
C8_InternedFilenames ==
    \A i, j, k \in CallIdx :
        (/\ SameKey(i, j)
         /\ calls[k].tab # calls[i].tab
         /\ Text(calls[k].arg) = Text(calls[i].arg))
        => LET fi == Filename(calls[i].ret)
               fj == Filename(calls[j].ret)
               fk == Filename(calls[k].ret)
               apart == calls[FirstCall(i)].arg.addr # calls[FirstCall(k)].arg.addr
           IN /\ FilenameEq(fi, fj)
              /\ FilenameEq(fi, fk) <=> ~apart
              /\ FilenameEq(fj, fk) <=> ~apart

\* One text interned twice in one table and once, from another address, in
\* the other table.
C8_Witness ==
    \E i, j, k \in CallIdx :
        /\ i # j
        /\ SameKey(i, j)
        /\ calls[k].tab # calls[i].tab
        /\ Text(calls[k].arg) = Text(calls[i].arg)
        /\ calls[k].arg.addr # calls[FirstCall(i)].arg.addr
        /\ ~FilenameEq(Filename(calls[j].ret), Filename(calls[k].ret))

Interned(t) == { Text(calls[i].arg) : i \in { k \in CallIdx : calls[k].tab = t } }

\* C9: after any sequence of intern, reserve and shrink_to_fit calls on a
\* table made by new() or with_capacity(n), len() is the number of distinct
\* texts passed to intern so far (0 on a fresh table), and no call makes it
\* smaller, reserve and shrink_to_fit leave it unchanged, and intern raises
\* it by one for a text not seen before and leaves it for a text seen.
C9_LenCountsContents ==
    /\ [](\A t \in Tables : len(tabs[t]) = Cardinality(Interned(t)))
    /\ [][\A t \in Tables :
            /\ len(tabs[t])' >= len(tabs[t])
            /\ calls' = calls => len(tabs[t])' = len(tabs[t])
            /\ (calls' # calls /\ calls'[Len(calls')].tab = t) =>
                  len(tabs[t])' = len(tabs[t]) +
                     (IF Text(calls'[Len(calls')].arg) \in Interned(t)
                      THEN 0 ELSE 1)]_vars

\* A table given three intern calls, two of them with one text, and a
\* capacity operation made: len() is 2.
C9_Witness ==
    \E t \in Tables :
        /\ Cardinality({ i \in CallIdx : calls[i].tab = t }) = 3
        /\ len(tabs[t]) = 2
        /\ resized >= 0

----------------------------------------------------------------------------
(* Claims about the wrappers and the positions (PosSpec).                  *)

Wrappers == {"Filename", "Symbol"}

\* The Ordering a comparison produced, whether through partial_cmp or cmp.
Compared == res.op \in {"partial_cmp", "cmp"}
Ordering == IF res.op = "partial_cmp" THEN res.val[1] ELSE res.val

\* C2: two Filenames, and two Symbols, are equal if and only if they wrap
\* the same reference (the same address and length), never because their
\* text is equal: a reference wrapped twice gives equal values, and equal
\* text stored at two addresses gives unequal values.
C2_WrapperEquality ==
    (layer \in Wrappers /\ res.op = "eq") =>
        /\ res.val <=> (a.ref = b.ref)
        /\ (Text(a.ref) = Text(b.ref) /\ a.ref.addr # b.ref.addr) => ~res.val

\* Two Filenames over equal text at different addresses compared unequal.
C2_Witness ==
    /\ layer = "Filename"
    /\ res.op = "eq"
    /\ Text(a.ref) = Text(b.ref)
    /\ a.ref.addr # b.ref.addr
    /\ res.val = FALSE

\* C3 as stated: every ordering comparison of two Filenames or two Symbols,
\* through partial_cmp, through cmp, or as the filename step of
\* FilePosition's ordering, is decided by the addresses of the wrapped
\* references and never by their text.
C3_Original ==
    /\ (layer \in Wrappers /\ Compared) =>
          Ordering = IntCmp(a.ref.addr, b.ref.addr)
    /\ (layer = "FilePosition" /\ Compared
            /\ a.filename.ref.addr # b.filename.ref.addr) =>
          Ordering = IntCmp(a.filename.ref.addr, b.filename.ref.addr)

\* C4 as stated: two Locations are equal if and only if both are Points
\* with equal points or both are Spans with equal starts and equal ends; a
\* Span never equals a Point and every Location equals itself.
C4_Original ==
    (layer = "Location" /\ res.op = "eq") =>
        /\ res.val <=>
              \/ /\ a.kind = "Point" /\ b.kind = "Point"
                 /\ a.point.line = b.point.line /\ a.point.col = b.point.col
              \/ /\ a.kind = "Span" /\ b.kind = "Span"
                 /\ a.start.line = b.start.line /\ a.start.col = b.start.col
                 /\ a.end.line = b.end.line /\ a.end.col = b.end.col
        /\ a = b => res.val

BasicOrder == <<"Content", "File", "CmdLine", "Synthetic">>
DWARFOrder == <<"Def", "TypeDef", "Block", "Basic">>

\* The place of a variant kind in the order the claim gives.
Rank(order, kind) == CHOOSE i \in 1..Len(order) : order[i] = kind

Reverse(o) == IF o = Less THEN Greater ELSE IF o = Greater THEN Less ELSE Equal

\* C5: two BasicPositions of different variants compare by
\* Content < File < CmdLine < Synthetic and two DWARFPositions of different
\* variants by Def < TypeDef < Block < Basic, whatever they carry: the
\* earlier variant is Less, the reverse comparison is Greater, and so no
\* pair of variants is Less, or Greater, in both directions.
C5_CrossVariantOrder ==
    (layer \in {"BasicPosition", "DWARFPosition"} /\ Compared
            /\ a.kind # b.kind) =>
        LET order == IF layer = "BasicPosition" THEN BasicOrder ELSE DWARFOrder
            want == IF Rank(order, a.kind) < Rank(order, b.kind)
                    THEN Less ELSE Greater
        IN /\ Ordering = want
           /\ PartialCmp(layer, b, a) = Some(Reverse(want))
           /\ Cmp(layer, b, a) = Reverse(want)

\* A File compared with a CmdLine.
C5_Witness ==
    /\ layer = "BasicPosition"
    /\ a.kind = "File"
    /\ b.kind = "CmdLine"
    /\ res.op = "partial_cmp"
    /\ res.val = Some(Less)

\* (l1, c1) < (l2, c2)
PointLess(p, q) == p.line < q.line \/ (p.line = q.line /\ p.col < q.col)

LocationLess(x, y) ==
    \/ x.kind = "Span" /\ y.kind = "Point"
    \/ x.kind = "Point" /\ y.kind = "Point" /\ PointLess(x.point, y.point)
    \/ /\ x.kind = "Span" /\ y.kind = "Span"
       /\ \/ PointLess(x.start, y.start)
          \/ x.start = y.start /\ PointLess(x.end, y.end)

\* C6: the ordering of Locations is a total order in which any Span is less
\* than any Point, two Points compare by line and then column (p1 < p2 iff
\* l1 < l2 or l1 = l2 and c1 < c2), and two Spans compare by start and then
\* by end.
C6_LocationOrder ==
    /\ (layer = "Point" /\ Compared) =>
          /\ Ordering = Less <=> PointLess(a, b)
          /\ Ordering = Greater <=> PointLess(b, a)
          /\ Ordering = Equal <=> a = b
    /\ (layer = "Location" /\ Compared) =>
          /\ Ordering = Less <=> LocationLess(a, b)
          /\ Ordering = Greater <=> LocationLess(b, a)
          /\ Ordering = Equal <=> a = b
          /\ PartialCmp(layer, b, a) = Some(Reverse(Ordering))
          /\ \A c \in Locations(Nums) :
                (Ordering = Less /\ PartialCmp(layer, b, c) = Some(Less))
                    => PartialCmp(layer, a, c) = Some(Less)

\* A Span that starts after a Point compared with that Point.
C6_Witness ==
    /\ layer = "Location"
    /\ a.kind = "Span"
    /\ b.kind = "Point"
    /\ PointLess(b.point, a.start)
    /\ res.op = "partial_cmp"
    /\ res.val = Some(Less)

\* C7: location() of a BasicPosition is None for CmdLine and Synthetic,
\* Some((filename, None)) with the variant's filename for File, and
\* Some((filename, Some(loc))) with the FilePosition's filename and location
\* for Content.
C7_BasicLocation ==
    (layer = "BasicPosition" /\ res.op = "location") =>
        /\ a.kind \in {"CmdLine", "Synthetic"} => res.val = None
        /\ a.kind = "File" => res.val = Some(<<a.filename, None>>)
        /\ a.kind = "Content" =>
              res.val = Some(<<a.filepos.filename, Some(a.filepos.loc)>>)

\* location() of a Content over a Span.
C7_Witness ==
    /\ layer = "BasicPosition"
    /\ a.kind = "Content"
    /\ a.filepos.loc.kind = "Span"
    /\ res.op = "location"
    /\ Len(res.val) = 1
    /\ res.val[1][2] = Some(a.filepos.loc)

IsDigit(c) == \E d \in 1..10 : DigitChars[d] = c
DigitVal(c) == (CHOOSE d \in 1..10 : DigitChars[d] = c) - 1

\* The characters of a text that are no digits, in order.
Separators(text) == SelectSeq(text, LAMBDA c : ~IsDigit(c))

\* The numbers written in a text, in order.
RECURSIVE Numbers(_, _, _)
Numbers(text, cur, started) ==
    IF text = <<>> THEN (IF started THEN <<cur>> ELSE <<>>)
    ELSE IF IsDigit(Head(text))
         THEN Numbers(Tail(text), cur * 10 + DigitVal(Head(text)), TRUE)
         ELSE (IF started THEN <<cur>> ELSE <<>>) \o Numbers(Tail(text), 0, FALSE)

RECURSIVE Digits(_)
Digits(n) == IF n < 10 THEN 1 ELSE 1 + Digits(n \div 10)

RECURSIVE SumDigits(_)
SumDigits(ns) == IF ns = <<>> THEN 0 ELSE Digits(Head(ns)) + SumDigits(Tail(ns))

\* text writes the numbers ns in decimal, without padding, separated by seps.
Writes(text, ns, seps) ==
    /\ Numbers(text, 0, FALSE) = ns
    /\ Separators(text) = seps
    /\ Len(text) = SumDigits(ns) + Len(seps)
    /\ IsDigit(text[1]) /\ IsDigit(text[Len(text)])

\* C10: a Span whose start and end share a line renders as
\* line.startcol-endcol, a Span over two lines as
\* startline.startcol-endline.endcol, and a Point as line.col; (3,4)-(3,9)
\* renders 3.4-9 and (3,4)-(5,1) renders 3.4-5.1.
C10_LocationDisplay ==
    (layer = "Location" /\ res.op = "fmt") =>
        /\ (a.kind = "Span" /\ a.start.line = a.end.line) =>
              Writes(res.val, <<a.start.line, a.start.col, a.end.col>>,
                     <<".", "-">>)
        /\ (a.kind = "Span" /\ a.start.line # a.end.line) =>
              Writes(res.val,
                     <<a.start.line, a.start.col, a.end.line, a.end.col>>,
                     <<".", "-", ".">>)
        /\ a.kind = "Point" =>
              Writes(res.val, <<a.point.line, a.point.col>>, <<".">>)
        /\ a = LocSpan(Point(3, 4), Point(3, 9)) =>
              res.val = <<"3", ".", "4", "-", "9">>
        /\ a = LocSpan(Point(3, 4), Point(5, 1)) =>
              res.val = <<"3", ".", "4", "-", "5", ".", "1">>

\* The span (3,4)-(3,9) rendered.
C10_Witness ==
    /\ layer = "Location"
    /\ a = LocSpan(Point(3, 4), Point(3, 9))
    /\ res.op = "fmt"
    /\ res.val = <<"3", ".", "4", "-", "9">>

\* The value a wrapper of the operands' type feeds the hasher.
Hashed(x) == IF layer = "Filename" THEN FilenameHash(x) ELSE SymbolHash(x)

\* C11 as stated: for any two Filenames, and any two Symbols, also over
\* slices that start at one address with different lengths, a == b holds
\* exactly when partial_cmp(a, b) is Equal, and a == b implies that both
\* feed the same value to the hasher.
C11_Original ==
    /\ (layer \in Wrappers /\ res.op = "eq") =>
          /\ res.val <=> (PartialCmp(layer, a, b) = Some(Equal))
          /\ res.val => Hashed(a) = Hashed(b)
    /\ (layer \in Wrappers /\ res.op = "partial_cmp") =>
          ((res.val = Some(Equal)) <=> Eq(layer, a, b))
    /\ (layer \in Wrappers /\ res.op = "hash" /\ Eq(layer, a, b)) =>
          res.val = Hashed(b)

\* The part of C11 the code keeps: a == b implies partial_cmp(a, b) is Equal
\* and equal values fed to the hasher.
C11_EqImpliesEqual ==
    /\ (layer \in Wrappers /\ res.op = "eq" /\ res.val) =>
          /\ PartialCmp(layer, a, b) = Some(Equal)
          /\ Hashed(a) = Hashed(b)
    /\ (layer \in Wrappers /\ res.op = "hash" /\ Eq(layer, a, b)) =>
          res.val = Hashed(b)

====
